---- MODULE Spec2Model ----
(***************************************************************************)
(* tantivy-vibrato: the adapter between the Vibrato segmentation engine    *)
(* and tantivy's pull-based TokenStream (src/src/tokenizer.rs).            *)
(*                                                                         *)
(* Rust's Option<T> is modelled as a sequence of length at most one:       *)
(* None is <<>> and Some(x) is <<x>>.  Rust indices are 0-based, TLA+      *)
(* sequences 1-based: tokens[i] of the code is tokens[i + 1] here.         *)
(***************************************************************************)
EXTENDS Integers, Sequences, FiniteSets, TLC

VARIABLES
    analyzer,    \* slot -> Option<dictionary>: the VibratoTokenizer values built so far
    newResult,   \* the Result returned by the last VibratoTokenizer::new
    engine,      \* text -> Option<behaviour of the engine on that text> (fixed on first use)
    nlog,        \* number of error! entries written
    pc,          \* per caller: position inside / after token_stream
    self,        \* per caller: the slot of the VibratoTokenizer the running call is made on
    text,        \* per caller: the text argument of the running call
    worker,      \* per worker slot: Option<Worker>; a call's worker is worker[worker_of(caller)]
    resetErr,    \* per caller: reset_sentence of the running call returned Err
    segmented,   \* per caller: the units token_iter() handed to the call
    produced,    \* per caller: the tokens of the stream as token_stream returned them
    stream,      \* per caller: Option<VibratoTokenStream>
    last,        \* per caller: outcome of the last call on the stream
    got,         \* per caller: Option<token> handed out by the last token()/token_mut()
    started,     \* per caller: advance() has been called on the stream
    falses,      \* per caller: number of times advance() has returned false on the stream
    pulled,      \* per caller: the token under the cursor after each advance() = true
    calls        \* per caller: number of token_stream calls the caller will still make

vars == <<analyzer, newResult, engine, nlog, pc, self, text, worker, resetErr, segmented,
          produced, stream, last, got, started, falses, pulled, calls>>

-----------------------------------------------------------------------------
\* Bounds of the model.
MaxLen == 2          \* longest free text (in characters) besides the test sentence
MaxCalls == 1        \* token_stream calls per caller
MaxAnalyzers == 1    \* VibratoTokenizer values constructed
MaxFalse == 2        \* advance() calls answered false that a caller makes on one stream

None == <<>>
Some(x) == <<x>>

-----------------------------------------------------------------------------
\* Input texts.  A character is named by a string; "a" is one byte of UTF-8,
\* every kana three.

TestSentence ==
    <<"su", "mo", "mo", "mo", "mo", "mo", "mo", "mo", "mo", "no", "u", "chi">>

BaseChar(i) == IF i % 2 = 1 THEN "a" ELSE "mo"

ShortTexts == {[i \in 1..k |-> BaseChar(i)] : k \in 1..MaxLen}

Texts == {<<>>, TestSentence} \cup ShortTexts

ByteLen(c) == IF c = "a" THEN 1 ELSE 3

\* Byte offset of the character with (0-based) index i of sentence sent.
RECURSIVE c2b(_, _)
c2b(sent, i) == IF i = 0 THEN 0 ELSE c2b(sent, i - 1) + ByteLen(sent[i])

len_bytes(sent) == c2b(sent, Len(sent))

-----------------------------------------------------------------------------
\* The segmentation engine (vibrato), seen through the calls the adapter makes.
\* A unit is a half-open range [s, e) of character indices of the sentence.

Ranges(n) == {r \in [s : 0..n, e : 0..n] : r.s < r.e}

UnitSeqs(n) ==
    {q \in UNION {[1..k -> Ranges(n)] : k \in 0..n} :
        \A i \in 1..(Len(q) - 1) : q[i].e <= q[i + 1].s}

range_char(u) == [start |-> u.s, end |-> u.e]
range_byte(sent, u) == [start |-> c2b(sent, u.s), end |-> c2b(sent, u.e)]
surface(sent, u) == SubSeq(sent, u.s + 1, u.e)

\* The units the engine finds in the test sentence with ./system.dic.
TestUnits ==
    << [s |-> 0, e |-> 3], [s |-> 3, e |-> 4], [s |-> 4, e |-> 6], [s |-> 6, e |-> 7],
       [s |-> 7, e |-> 9], [s |-> 9, e |-> 10], [s |-> 10, e |-> 12] >>

\* What the engine may do with a text: reset_sentence returns Ok or Err; after
\* an Err the worker's sentence is either cleared or still the rejected text;
\* units are the units tokenize() finds when the text is the worker's sentence.
EngineChoices(t) ==
    IF t = TestSentence
    THEN {[reset |-> "ok", kept |-> TRUE, units |-> TestUnits]}
    ELSE {[reset |-> r, kept |-> TRUE, units |-> q] :
              r \in {"ok", "err"}, q \in UnitSeqs(Len(t))}
         \cup {[reset |-> "err", kept |-> FALSE, units |-> <<>>]}

\* A reset_sentence whose Err leaves token_stream (as the ? operator would).
unwrap_or_return(res) == [logged |-> FALSE, proceeds |-> (res /= "err")]

\* Result::unwrap_or_else with the closure of lines 43-45: an Err is logged and
\* replaced by (), so the call goes on either way.
unwrap_or_else(res) == [logged |-> (res = "err"), proceeds |-> TRUE]

\* The behaviours the engine can show on a text that it has not yet shown one on.
engine_unfixed(eng, t) == EngineChoices(t)

\* The behaviour of the engine on a text: the dictionary behind the shared
\* tokenizer is never mutated, so the engine does on a text what it did before.
engine_behaviour(eng, t) == IF eng[t] = None THEN EngineChoices(t) ELSE {eng[t][1]}

\* One worker slot used by every call.
worker_shared(t) == 1

\* The worker of a call: new_worker() at line 42 gives each call a worker of
\* its own, held in a local of that call.
worker_of(t) == t

new_worker == [sent |-> <<>>, units |-> <<>>]

\* Worker::reset_sentence: the sentence the worker holds afterwards.
reset_sentence(w, t, entry) ==
    [w EXCEPT !.sent = IF entry.kept THEN t ELSE <<>>, !.units = <<>>]

\* Worker::tokenize: the units of the sentence the worker holds.
tokenize(w, eng) ==
    [w EXCEPT !.units = IF w.sent = <<>> THEN <<>> ELSE eng[w.sent][1].units]

token_iter(w) == w.units

-----------------------------------------------------------------------------
\* VibratoTokenizer::new

Paths == {"./system.dic", "./missing.dic", "./dir", "./broken.dic"}

\* What is at each path: a dictionary file, nothing, something that opens but
\* cannot be read (a directory), or a file whose bytes are no dictionary.
FileSystem(path) ==
    CASE path = "./system.dic" -> "dictionary"
      [] path = "./missing.dic" -> "missing"
      [] path = "./dir" -> "unreadable"
      [] OTHER -> "garbage"

File_open(path) == IF FileSystem(path) = "missing" THEN "Err" ELSE "Ok"

Dictionary_read(path) == IF FileSystem(path) = "dictionary" THEN "Ok" ELSE "Err"

VibratoTokenizer_new(path) ==
    IF File_open(path) = "Err"
    THEN [kind |-> "IOError", tokenizer |-> None, path |-> path]
    ELSE IF Dictionary_read(path) = "Err"
         THEN [kind |-> "VibratoError", tokenizer |-> None, path |-> path]
         ELSE [kind |-> "Ok", tokenizer |-> Some("system"), path |-> path]

-----------------------------------------------------------------------------
\* The token mapping of token_stream and VibratoTokenStream.

\* Offsets taken from the character range instead of the byte range.
TTokenCharOffsets(sent, u) ==
    [offset_from     |-> range_char(u).start,
     offset_to       |-> range_char(u).end,
     position        |-> range_char(u).start,
     position_length |-> range_char(u).end - range_char(u).start,
     text            |-> surface(sent, u)]

\* The two byte offsets exchanged.
TTokenSwapped(sent, u) ==
    [offset_from     |-> range_byte(sent, u).end,
     offset_to       |-> range_byte(sent, u).start,
     position        |-> range_char(u).start,
     position_length |-> range_char(u).end - range_char(u).start,
     text            |-> surface(sent, u)]

\* position_length taken as the end of the character range.
TTokenLengthIsEnd(sent, u) ==
    [offset_from     |-> range_byte(sent, u).start,
     offset_to       |-> range_byte(sent, u).end,
     position        |-> range_char(u).start,
     position_length |-> range_char(u).end,
     text            |-> surface(sent, u)]

TToken(sent, u) ==
    [offset_from     |-> range_byte(sent, u).start,
     offset_to       |-> range_byte(sent, u).end,
     position        |-> range_char(u).start,
     position_length |-> range_char(u).end - range_char(u).start,
     text            |-> surface(sent, u)]

collect(w) == [i \in 1..Len(token_iter(w)) |-> TToken(w.sent, token_iter(w)[i])]

\* A stream built with the cursor already on index 0.
VibratoTokenStreamAtZero(toks) == [tokens |-> toks, index |-> Some(0)]

VibratoTokenStream(toks) == [tokens |-> toks, index |-> None]

\* The cursor not moved on: i instead of i + 1.
next_index_same(index) == IF index = None THEN 0 ELSE index[1]

next_index(index) == IF index = None THEN 0 ELSE index[1] + 1

\* The bound test with <= in place of <.
has_next_inclusive(s) == next_index(s.index) <= Len(s.tokens)

has_next(s) == next_index(s.index) < Len(s.tokens)

\* An advance() that rewinds the cursor when it finds no further token.
advance_rewinding(s) ==
    IF next_index(s.index) < Len(s.tokens)
    THEN [s EXCEPT !.index = Some(next_index(s.index))]
    ELSE [s EXCEPT !.index = None]

\* An advance() that steps over a token when two or more are left.
advance_skipping(s) ==
    IF next_index(s.index) < Len(s.tokens)
    THEN [s EXCEPT !.index = Some(IF next_index(s.index) + 1 < Len(s.tokens)
                                  THEN next_index(s.index) + 1
                                  ELSE next_index(s.index))]
    ELSE s

\* An advance() that wraps around to the first token at the end.
advance_wrapping(s) ==
    IF next_index(s.index) < Len(s.tokens)
    THEN [s EXCEPT !.index = Some(next_index(s.index))]
    ELSE [s EXCEPT !.index = IF Len(s.tokens) > 0 THEN Some(0) ELSE None]

\* The stream after advance().
advance(s) == IF has_next(s) THEN [s EXCEPT !.index = Some(next_index(s.index))] ELSE s

\* A token() that reads index.unwrap_or(0).
token_or_first(s) ==
    IF s.index = None
    THEN (IF Len(s.tokens) > 0 THEN Some(s.tokens[1]) ELSE None)
    ELSE (IF s.index[1] >= Len(s.tokens) THEN None ELSE Some(s.tokens[s.index[1] + 1]))

\* self.tokens[self.index.unwrap()]: None stands for the panic of unwrap() or
\* of the bounds check.
token(s) ==
    IF s.index = None \/ s.index[1] >= Len(s.tokens)
    THEN None
    ELSE Some(s.tokens[s.index[1] + 1])

\* A write that lands on the first token whatever the cursor.
write_first(s, txt) == [s EXCEPT !.tokens[1].text = txt]

\* The stream after the caller wrote txt through the reference token_mut()
\* returned: the reference is to tokens[index].
write(s, txt) == [s EXCEPT !.tokens[s.index[1] + 1].text = txt]

\* What a filter writes through token_mut(): a rewritten text.
Rewrites == {<<"x">>}

-----------------------------------------------------------------------------
TypeOK ==
    /\ DOMAIN analyzer \subseteq Nat
    /\ \A a \in DOMAIN analyzer : analyzer[a] \in {None, Some("system")}
    /\ newResult.kind \in {"none", "Ok", "IOError", "VibratoError"}
    /\ DOMAIN engine = Texts
    /\ nlog \in Nat
    /\ \A t \in DOMAIN pc :
        /\ pc[t] \in {"idle", "reset", "tokenize", "collect", "stream", "panicked", "error"}
        /\ worker[worker_of(t)] = None <=> pc[t] \notin {"reset", "tokenize", "collect"}
        /\ self[t] \in DOMAIN analyzer \cup {0}
        /\ stream[t] = None <=> pc[t] \notin {"stream", "panicked"}
        /\ text[t] \in Texts
        /\ resetErr[t] \in BOOLEAN
        /\ last[t] \in {"none", "true", "false", "token", "token_mut", "panic"}
        /\ started[t] \in BOOLEAN
        /\ falses[t] \in 0..MaxFalse
        /\ calls[t] \in Nat

InitWith(TS, nAnalyzers, nCalls) ==
    /\ analyzer = [a \in 1..nAnalyzers |-> None]
    /\ newResult = [kind |-> "none", tokenizer |-> None, path |-> ""]
    /\ engine = [t \in Texts |-> None]
    /\ nlog = 0
    /\ pc = [t \in TS |-> "idle"]
    /\ self = [t \in TS |-> 0]
    /\ text = [t \in TS |-> <<>>]
    /\ worker = [t \in TS |-> None]
    /\ resetErr = [t \in TS |-> FALSE]
    /\ segmented = [t \in TS |-> <<>>]
    /\ produced = [t \in TS |-> <<>>]
    /\ stream = [t \in TS |-> None]
    /\ last = [t \in TS |-> "none"]
    /\ got = [t \in TS |-> None]
    /\ started = [t \in TS |-> FALSE]
    /\ falses = [t \in TS |-> 0]
    /\ pulled = [t \in TS |-> <<>>]
    /\ calls = [t \in TS |-> nCalls]

InitFor(TS) == InitWith(TS, MaxAnalyzers, MaxCalls)

callVars == <<pc, self, text, worker, resetErr, segmented, produced, calls>>
streamVars == <<stream, last, got, started, falses, pulled>>

\* VibratoTokenizer::new(path): the Result, and the value it holds when Ok.
New(path) ==
    /\ \E a \in DOMAIN analyzer : analyzer[a] = None
    /\ newResult' = VibratoTokenizer_new(path)
    /\ analyzer' =
         IF newResult'.kind = "Ok"
         THEN LET a == CHOOSE a \in DOMAIN analyzer :
                           analyzer[a] = None /\ \A b \in 1..(a - 1) : analyzer[b] /= None
              IN  [analyzer EXCEPT ![a] = newResult'.tokenizer]
         ELSE analyzer
    /\ UNCHANGED <<engine, nlog>>
    /\ UNCHANGED callVars
    /\ UNCHANGED streamVars

\* token_stream, line 42: a caller enters with a text and gets a fresh worker.
\* A stream the caller still holds from an earlier call is dropped.
NewWorker(t, a, txt) ==
    /\ pc[t] \in {"idle", "stream"}
    /\ calls[t] > 0
    /\ analyzer[a] /= None
    /\ pc' = [pc EXCEPT ![t] = "reset"]
    /\ self' = [self EXCEPT ![t] = a]
    /\ text' = [text EXCEPT ![t] = txt]
    /\ worker' = [worker EXCEPT ![worker_of(t)] = Some(new_worker)]
    /\ calls' = [calls EXCEPT ![t] = @ - 1]
    /\ resetErr' = [resetErr EXCEPT ![t] = FALSE]
    /\ segmented' = [segmented EXCEPT ![t] = <<>>]
    /\ produced' = [produced EXCEPT ![t] = <<>>]
    /\ stream' = [stream EXCEPT ![t] = None]
    /\ last' = [last EXCEPT ![t] = "none"]
    /\ got' = [got EXCEPT ![t] = None]
    /\ started' = [started EXCEPT ![t] = FALSE]
    /\ falses' = [falses EXCEPT ![t] = 0]
    /\ pulled' = [pulled EXCEPT ![t] = <<>>]
    /\ UNCHANGED <<analyzer, newResult, engine, nlog>>

\* token_stream, lines 43-45: reset_sentence, its Err logged and dropped.
ResetSentence(t) ==
    /\ pc[t] = "reset"
    /\ worker[worker_of(t)] /= None
    /\ \E entry \in engine_behaviour(engine, text[t]) :
        /\ engine' = [engine EXCEPT ![text[t]] = Some(entry)]
        /\ worker' = [worker EXCEPT ![worker_of(t)] =
                         Some(reset_sentence(worker[worker_of(t)][1], text[t], entry))]
        /\ resetErr' = [resetErr EXCEPT ![t] = (entry.reset = "err")]
        /\ nlog' = IF unwrap_or_else(entry.reset).logged THEN nlog + 1 ELSE nlog
        /\ pc' = [pc EXCEPT ![t] =
                    IF unwrap_or_else(entry.reset).proceeds THEN "tokenize" ELSE "error"]
    /\ UNCHANGED <<analyzer, newResult, self, text, segmented, produced, calls>>
    /\ UNCHANGED streamVars

\* token_stream, line 46.
Tokenize(t) ==
    /\ pc[t] = "tokenize"
    /\ worker[worker_of(t)] /= None
    /\ worker' = [worker EXCEPT ![worker_of(t)] =
                     Some(tokenize(worker[worker_of(t)][1], engine))]
    /\ pc' = [pc EXCEPT ![t] = "collect"]
    /\ UNCHANGED <<analyzer, newResult, engine, nlog, self, text, resetErr, segmented,
                   produced, calls>>
    /\ UNCHANGED streamVars

\* token_stream, lines 48-64: the tokens are collected, the stream is built
\* and returned, the worker is dropped.
Collect(t) ==
    /\ pc[t] = "collect"
    /\ worker[worker_of(t)] /= None
    /\ segmented' = [segmented EXCEPT ![t] = token_iter(worker[worker_of(t)][1])]
    /\ produced' = [produced EXCEPT ![t] = collect(worker[worker_of(t)][1])]
    /\ stream' = [stream EXCEPT ![t] =
                     Some(VibratoTokenStream(collect(worker[worker_of(t)][1])))]
    /\ worker' = [worker EXCEPT ![worker_of(t)] = None]
    /\ pc' = [pc EXCEPT ![t] = "stream"]
    /\ UNCHANGED <<analyzer, newResult, engine, nlog, self, text, resetErr, calls>>
    /\ UNCHANGED <<last, got, started, falses, pulled>>

\* VibratoTokenStream::advance
Advance(t) ==
    /\ pc[t] = "stream"
    /\ has_next(stream[t][1]) \/ falses[t] < MaxFalse
    /\ LET s  == stream[t][1]
           ok == has_next(s)
       IN  /\ stream' = [stream EXCEPT ![t] = Some(advance(s))]
           /\ last' = [last EXCEPT ![t] = IF ok THEN "true" ELSE "false"]
           /\ falses' = [falses EXCEPT ![t] = IF ok THEN @ ELSE @ + 1]
           /\ pulled' = [pulled EXCEPT ![t] =
                            IF ok /\ token(advance(s)) /= None
                            THEN Append(@, token(advance(s))[1]) ELSE @]
    /\ started' = [started EXCEPT ![t] = TRUE]
    /\ got' = [got EXCEPT ![t] = None]
    /\ UNCHANGED <<analyzer, newResult, engine, nlog>>
    /\ UNCHANGED callVars

\* VibratoTokenStream::token
Token(t) ==
    /\ pc[t] = "stream"
    /\ got' = [got EXCEPT ![t] = token(stream[t][1])]
    /\ last' = [last EXCEPT ![t] = IF token(stream[t][1]) = None THEN "panic" ELSE "token"]
    /\ pc' = [pc EXCEPT ![t] = IF token(stream[t][1]) = None THEN "panicked" ELSE @]
    /\ UNCHANGED <<analyzer, newResult, engine, nlog, self, text, worker, resetErr,
                   segmented, produced, calls>>
    /\ UNCHANGED <<stream, started, falses, pulled>>

\* VibratoTokenStream::token_mut, and the write of the caller through the
\* reference it returns.
TokenMut(t, txt) ==
    /\ pc[t] = "stream"
    /\ LET s == stream[t][1]
       IN  IF token(s) = None
           THEN /\ got' = [got EXCEPT ![t] = None]
                /\ last' = [last EXCEPT ![t] = "panic"]
                /\ pc' = [pc EXCEPT ![t] = "panicked"]
                /\ UNCHANGED stream
           ELSE /\ got' = [got EXCEPT ![t] = Some([token(s)[1] EXCEPT !.text = txt])]
                /\ last' = [last EXCEPT ![t] = "token_mut"]
                /\ stream' = [stream EXCEPT ![t] = Some(write(s, txt))]
                /\ UNCHANGED pc
    /\ UNCHANGED <<analyzer, newResult, engine, nlog, self, text, worker, resetErr,
                   segmented, produced, calls>>
    /\ UNCHANGED <<started, falses, pulled>>

NextFor(TS) ==
    \/ \E path \in Paths : New(path)
    \/ \E t \in TS, a \in DOMAIN analyzer, txt \in Texts : NewWorker(t, a, txt)
    \/ \E t \in TS : ResetSentence(t)
    \/ \E t \in TS : Tokenize(t)
    \/ \E t \in TS : Collect(t)
    \/ \E t \in TS : Advance(t)
    \/ \E t \in TS : Token(t)
    \/ \E t \in TS, txt \in Rewrites : TokenMut(t, txt)

Callers == {1}

Init == InitFor(Callers)
Next == NextFor(Callers)
Spec == Init /\ [][Next]_vars

-----------------------------------------------------------------------------
\* Two threads calling token_stream at the same time, on tokenizers built from
\* the same dictionary file; a step is one statement of token_stream.

ConcCallers == {1, 2}
ConcPaths == {"./system.dic"}
ConcTexts == {<<>>, <<"a", "mo">>}

InitConc == InitWith(ConcCallers, MaxAnalyzers + 1, MaxCalls + 1)

NextConc ==
    \/ \E path \in ConcPaths : New(path)
    \/ \E t \in ConcCallers, a \in DOMAIN analyzer, txt \in ConcTexts : NewWorker(t, a, txt)
    \/ \E t \in ConcCallers : ResetSentence(t)
    \/ \E t \in ConcCallers : Tokenize(t)
    \/ \E t \in ConcCallers : Collect(t)

SpecConc == InitConc /\ [][NextConc]_vars

-----------------------------------------------------------------------------
\* Properties.

Cursor(t) == stream[t][1].index
NumTokens(t) == Len(stream[t][1].tokens)

\* C1: advance() follows the transition table: from NotStarted it returns true
\* and puts the cursor on token 0 when there is a token, and returns false when
\* there is none; from Positioned(i) it returns true and puts the cursor on
\* token i + 1 when i + 1 < n, and returns false otherwise.
C1_AdvanceTransitions ==
    [][\A t \in Callers : Advance(t) =>
          LET i  == stream[t][1].index
              n  == Len(stream[t][1].tokens)
              i2 == stream'[t][1].index
          IN  /\ (i = None /\ n > 0) => (last'[t] = "true" /\ i2 = Some(0))
              /\ (i = None /\ n = 0) => last'[t] = "false"
              /\ (i /= None /\ i[1] + 1 < n) => (last'[t] = "true" /\ i2 = Some(i[1] + 1))
              /\ (i /= None /\ i[1] + 1 >= n) => last'[t] = "false"]_vars

\* The cursor has walked to the last of the seven tokens and the next
\* advance() has returned false.
C1_Witness ==
    \E t \in Callers :
        /\ stream[t] /= None
        /\ NumTokens(t) = 7
        /\ Cursor(t) = Some(6)
        /\ last[t] = "false"

\* C2: once advance() has returned false, every later advance() returns false
\* and leaves cursor and tokens as they were.
C2_ExhaustedStays ==
    [][\A t \in Callers : (falses[t] > 0 /\ Advance(t)) =>
          (last'[t] = "false" /\ stream'[t] = stream[t])]_vars

\* A second advance() has returned false on a stream that has tokens.
C2_Witness ==
    \E t \in Callers :
        /\ stream[t] /= None
        /\ NumTokens(t) > 0
        /\ falses[t] >= 2
        /\ last[t] = "false"

\* C3: after advance() has returned false no token retrieval succeeds: neither
\* token() nor token_mut() hands out a token.
C3_NoTokenAfterExhaustion ==
    \A t \in Callers :
        falses[t] > 0 => (last[t] \notin {"token", "token_mut"} /\ got[t] = None)

\* C4: token() or token_mut() called on a stream before any advance() hands
\* out no token: the call panics, however many tokens the stream holds.
C4_NoTokenBeforeAdvance ==
    \A t \in Callers :
        (stream[t] /= None /\ ~started[t]) =>
            /\ got[t] = None
            /\ last[t] \in {"none", "panic"}
            /\ (last[t] = "panic" <=> pc[t] = "panicked")

\* A retrieval before the first advance() has panicked on a stream with tokens.
C4_Witness ==
    \E t \in Callers :
        /\ stream[t] /= None
        /\ ~started[t]
        /\ NumTokens(t) > 0
        /\ pc[t] = "panicked"

\* C5: when reset_sentence fails, the call produces zero tokens: no units are
\* taken from the worker and the first advance() on the stream returns false.
C5_ResetFailureGivesNoTokens ==
    \A t \in Callers :
        (resetErr[t] /\ pc[t] \in {"stream", "panicked"}) =>
            /\ segmented[t] = <<>>
            /\ produced[t] = <<>>
            /\ last[t] /= "true"

\* C6: token_stream never fails for its caller: whether reset_sentence returns
\* Ok or Err the call goes on to return a stream in the NotStarted state, no
\* error leaves the call, and an Err is recorded as exactly one log entry
\* (nothing else writes the log).
C6_TokenStreamInfallible ==
    [][/\ \A t \in Callers :
            /\ pc'[t] /= "error"
            /\ (pc[t] = "reset" /\ pc'[t] /= "reset") =>
                   /\ pc'[t] = "tokenize"
                   /\ resetErr'[t] => nlog' = nlog + 1
                   /\ ~resetErr'[t] => nlog' = nlog
            /\ (pc[t] = "collect" /\ pc'[t] /= "collect") =>
                   /\ pc'[t] = "stream"
                   /\ stream'[t] /= None
                   /\ stream'[t][1].index = None
                   /\ ~started'[t]
                   /\ last'[t] = "none"
       /\ nlog' /= nlog => \E t \in Callers : pc[t] = "reset" /\ resetErr'[t]]_vars

\* A call whose reset_sentence failed has returned a stream nobody has touched.
C6_Witness ==
    \E t \in Callers :
        /\ pc[t] = "stream"
        /\ resetErr[t]
        /\ nlog = 1
        /\ stream[t] /= None
        /\ Cursor(t) = None
        /\ last[t] = "none"

\* C7: new() returns IOError when the file cannot be opened or read, the
\* dictionary-format error when its bytes are no dictionary, and a tokenizer
\* only when both steps succeeded; a failed construction leaves no tokenizer.
C7_ConstructionErrors ==
    newResult.kind /= "none" =>
        LET f == FileSystem(newResult.path)
        IN  /\ f \in {"missing", "unreadable"} => newResult.kind = "IOError"
            /\ f = "garbage" => newResult.kind = "VibratoError"
            /\ newResult.kind = "Ok" <=> f = "dictionary"
            /\ newResult.kind /= "Ok" => newResult.tokenizer = None

\* The byte offsets and positions test1 asserts for the test sentence.
TestTable ==
    << [text |-> <<"su", "mo", "mo">>, offset_from |-> 0, offset_to |-> 9, position |-> 0],
       [text |-> <<"mo">>, offset_from |-> 9, offset_to |-> 12, position |-> 3],
       [text |-> <<"mo", "mo">>, offset_from |-> 12, offset_to |-> 18, position |-> 4],
       [text |-> <<"mo">>, offset_from |-> 18, offset_to |-> 21, position |-> 6],
       [text |-> <<"mo", "mo">>, offset_from |-> 21, offset_to |-> 27, position |-> 7],
       [text |-> <<"no">>, offset_from |-> 27, offset_to |-> 30, position |-> 9],
       [text |-> <<"u", "chi">>, offset_from |-> 30, offset_to |-> 36, position |-> 10] >>

\* C8: pulling a stream until advance() returns false yields the units the
\* engine produced, one token per unit and in the engine's order, each with
\* text = surface, byte offsets = the unit's byte range, position = the unit's
\* first character index and position_length = its number of characters; for
\* the test sentence these are the seven tokens of the table.
C8_PulledTokensAreTheUnits ==
    \A t \in Callers :
        falses[t] > 0 =>
            /\ Len(pulled[t]) = Len(segmented[t])
            /\ (~resetErr[t] /\ text[t] /= <<>>) =>
                   segmented[t] = engine[text[t]][1].units
            /\ \A k \in 1..Len(pulled[t]) :
                   LET u   == segmented[t][k]
                       tok == pulled[t][k]
                   IN  /\ tok.text = SubSeq(text[t], u.s + 1, u.e)
                       /\ tok.offset_from = c2b(text[t], u.s)
                       /\ tok.offset_to = c2b(text[t], u.e)
                       /\ tok.position = u.s
                       /\ tok.position_length = Len(tok.text)
            /\ text[t] = TestSentence =>
                   /\ Len(pulled[t]) = 7
                   /\ \A k \in 1..7 :
                          /\ pulled[t][k].text = TestTable[k].text
                          /\ pulled[t][k].offset_from = TestTable[k].offset_from
                          /\ pulled[t][k].offset_to = TestTable[k].offset_to
                          /\ pulled[t][k].position = TestTable[k].position

\* The stream over the test sentence has been pulled to its end.
C8_Witness ==
    \E t \in Callers :
        /\ text[t] = TestSentence
        /\ falses[t] > 0
        /\ Len(pulled[t]) = 7

\* C9: for the empty text token_stream returns a stream without tokens, and
\* advance() on it returns false from the first call on.
C9_EmptyText ==
    \A t \in Callers :
        (stream[t] /= None /\ text[t] = <<>>) =>
            /\ produced[t] = <<>>
            /\ NumTokens(t) = 0
            /\ last[t] /= "true"
            /\ started[t] => (last[t] = "false" \/ pc[t] = "panicked")

\* advance() has been called on the stream of the empty text.
C9_Witness ==
    \E t \in Callers :
        /\ stream[t] /= None
        /\ text[t] = <<>>
        /\ started[t]
        /\ last[t] = "false"

\* C10: in the tokens one call produces, every token has
\* offset_from <= offset_to <= byte length of the input, and the byte offsets
\* do not decrease from a token to the next.
C10_ByteOffsets ==
    \A t \in Callers :
        /\ \A k \in 1..Len(produced[t]) :
               /\ produced[t][k].offset_from <= produced[t][k].offset_to
               /\ produced[t][k].offset_to <= len_bytes(text[t])
        /\ \A k \in 1..(Len(produced[t]) - 1) :
               /\ produced[t][k].offset_from <= produced[t][k + 1].offset_from
               /\ produced[t][k].offset_to <= produced[t][k + 1].offset_to

\* A call has produced two tokens from a text that mixes one-byte and
\* three-byte characters.
C10_Witness ==
    \E t \in Callers :
        /\ pc[t] = "stream"
        /\ text[t] = <<"a", "mo">>
        /\ Len(produced[t]) = 2

\* C11: for contiguous segmentation every adjacent pair of produced tokens has
\* position[k + 1] = position[k] + position_length[k], and position_length is
\* the end of the unit's character range minus its start.
C11_CharPositionsChain ==
    \A t \in DOMAIN pc :
        /\ Len(produced[t]) = Len(segmented[t])
        /\ \A k \in 1..Len(produced[t]) :
               produced[t][k].position_length = segmented[t][k].e - segmented[t][k].s
        /\ \A k \in 1..(Len(produced[t]) - 1) :
               segmented[t][k].e = segmented[t][k + 1].s =>
                   produced[t][k + 1].position =
                       produced[t][k].position + produced[t][k].position_length

\* A call has produced the seven contiguous tokens of the test sentence.
C11_Witness ==
    \E t \in DOMAIN pc :
        /\ text[t] = TestSentence
        /\ Len(produced[t]) = 7
        /\ \A k \in 1..6 : segmented[t][k].e = segmented[t][k + 1].s

\* C14: on a stream of n tokens advance() answers true exactly n times and then
\* false; after the k-th true the cursor is on index k - 1 and token() is that
\* token, so the tokens are visited once each, in order.
C14_VisitsEachTokenOnce ==
    \A t \in Callers :
        stream[t] /= None =>
            LET k == Len(pulled[t])
            IN  /\ k <= NumTokens(t)
                /\ falses[t] > 0 => k = NumTokens(t)
                /\ Cursor(t) = IF k = 0 THEN None ELSE Some(k - 1)
                /\ \A j \in 1..k : pulled[t][j] = produced[t][j]
                /\ last[t] = "true" => falses[t] = 0
                /\ last[t] = "token" => (k > 0 /\ got[t] = Some(stream[t][1].tokens[k]))

\* token() has been read after the third of seven advances.
C14_Witness ==
    \E t \in Callers :
        /\ stream[t] /= None
        /\ NumTokens(t) = 7
        /\ Len(pulled[t]) = 3
        /\ last[t] = "token"
        /\ got[t] = Some(produced[t][3])

\* C15: exhaustion is reached from every state of a stream and never left: as
\* long as advance() has not returned false it can be called, each call either
\* visits one more of the n tokens or returns false, so false comes after at
\* most n + 1 calls; after it no step of the stream moves the cursor or makes
\* advance() report true again.
C15_ExhaustedIsTerminal ==
    [][\A t \in Callers :
          /\ (pc[t] = "stream" /\ falses[t] = 0) => ENABLED Advance(t)
          /\ Advance(t) =>
                 /\ Len(pulled'[t]) + falses'[t] = Len(pulled[t]) + falses[t] + 1
                 /\ Len(pulled'[t]) <= Len(stream[t][1].tokens)
          /\ (falses[t] > 0 /\ stream'[t] /= None) =>
                 /\ falses'[t] >= falses[t]
                 /\ stream'[t][1].index = stream[t][1].index
                 /\ ~(next_index(stream'[t][1].index) < Len(stream'[t][1].tokens))
                 /\ last'[t] /= "true"]_vars

\* After the false of advance() the last token was rewritten and advance()
\* was called again, on a stream of two tokens.
C15_Witness ==
    \E t \in Callers :
        /\ stream[t] /= None
        /\ NumTokens(t) = 2
        /\ falses[t] = 2
        /\ stream[t][1].tokens[2].text \in Rewrites
        /\ Cursor(t) = Some(1)

\* C16: a write through token_mut() with the cursor on token i changes token i
\* only: token() then returns the written value, every other token, the number
\* of tokens and the cursor stay, and advance() and token() change no token.
C16_WriteChangesOnlyCursorToken ==
    [][\A t \in Callers :
          /\ ((\E txt \in Rewrites : TokenMut(t, txt)) /\ pc'[t] = "stream") =>
                 LET old == stream[t][1]
                     new == stream'[t][1]
                     i   == old.index[1]
                 IN  /\ new.index = old.index
                     /\ Len(new.tokens) = Len(old.tokens)
                     /\ \A j \in 1..Len(old.tokens) :
                            j /= i + 1 => new.tokens[j] = old.tokens[j]
                     /\ new.tokens[i + 1].text \in Rewrites
                     /\ new.tokens[i + 1] =
                            [old.tokens[i + 1] EXCEPT !.text = new.tokens[i + 1].text]
                     /\ got'[t] = Some(new.tokens[i + 1])
                     /\ token(new) = got'[t]
          /\ Advance(t) => stream'[t][1].tokens = stream[t][1].tokens
          /\ Token(t) => stream'[t] = stream[t]]_vars

\* The second of at least three tokens has been rewritten, the first has not.
C16_Witness ==
    \E t \in Callers :
        /\ stream[t] /= None
        /\ NumTokens(t) >= 3
        /\ Cursor(t) = Some(1)
        /\ last[t] = "token_mut"
        /\ stream[t][1].tokens[2].text \in Rewrites
        /\ stream[t][1].tokens[1] = produced[t][1]
        /\ stream[t][1].tokens[3] = produced[t][3]

\* C17: the cursor is unset, exactly as long as no advance() has returned
\* true, or it is an index i with 0 <= i < n; so token() after an advance()
\* that returned true reads inside the sequence.
C17_CursorInRange ==
    \A t \in Callers :
        stream[t] /= None =>
            /\ Cursor(t) = None <=> Len(pulled[t]) = 0
            /\ Cursor(t) /= None => (0 <= Cursor(t)[1] /\ Cursor(t)[1] < NumTokens(t))
            /\ Len(pulled[t]) > 0 => token(stream[t][1]) /= None
            /\ (pc[t] = "panicked" => Len(pulled[t]) = 0)

\* token() has returned the only token of a one-token stream.
C17_Witness ==
    \E t \in Callers :
        /\ stream[t] /= None
        /\ NumTokens(t) = 1
        /\ Cursor(t) = Some(0)
        /\ last[t] = "token"

\* What token_stream returns for a text when nothing else runs: the statements
\* of lines 42-57 one after the other on a worker of its own.
Alone(txt) ==
    collect(tokenize(reset_sentence(new_worker, txt, engine[txt][1]), engine))

\* A statement of token_stream executed by caller t.
CallStep(t) ==
    \/ \E a \in DOMAIN analyzer, txt \in ConcTexts : NewWorker(t, a, txt)
    \/ ResetSentence(t)
    \/ Tokenize(t)
    \/ Collect(t)

\* C12: concurrent token_stream calls do not interfere: a statement of one call
\* leaves the worker and the locals of every other call as they were, no step
\* writes a constructed tokenizer (the shared dictionary) or changes what the
\* engine does on a text, and under every interleaving a call returns the
\* tokens it returns when run alone.
C12_CallsDoNotInterfere ==
    [][/\ \A t \in ConcCallers : \A o \in ConcCallers \ {t} :
            CallStep(t) =>
                /\ worker'[worker_of(o)] = worker[worker_of(o)]
                /\ pc'[o] = pc[o]
                /\ text'[o] = text[o]
                /\ resetErr'[o] = resetErr[o]
                /\ segmented'[o] = segmented[o]
                /\ produced'[o] = produced[o]
                /\ stream'[o] = stream[o]
       /\ \A a \in DOMAIN analyzer : analyzer[a] /= None => analyzer'[a] = analyzer[a]
       /\ \A x \in DOMAIN engine : engine[x] /= None => engine'[x] = engine[x]
       /\ \A t \in ConcCallers :
            Collect(t) => produced'[t] = Alone(text[t])]_vars

\* Two calls on one tokenizer are under way at once, each with its own
\* sentence in its own worker.
C12_Witness ==
    /\ pc[1] = "collect"
    /\ pc[2] = "tokenize"
    /\ self[1] = self[2]
    /\ worker[worker_of(1)] /= None
    /\ worker[worker_of(2)] /= None
    /\ text[1] = <<"a", "mo">>
    /\ text[2] = <<>>
    /\ worker[worker_of(1)][1].sent = <<"a", "mo">>
    /\ Len(worker[worker_of(1)][1].units) > 0
    /\ worker[worker_of(2)][1].sent = <<>>

====
